---- MODULE Spec2Model ----
(***************************************************************************)
(* KuduTableAlterer::Data and its ToRequest() method                       *)
(* (src/kudu/client/table_alterer-internal.{h,cc}): the accumulated        *)
(* description of one table alteration and its translation into one        *)
(* AlterTableRequestPB.                                                    *)
(***************************************************************************)
EXTENDS Integers, Sequences, FiniteSets, TLC

VARIABLES
  data,        \* the KuduTableAlterer::Data object (its fields)
  req,         \* the caller's AlterTableRequestPB, the out-parameter of ToRequest
  req_before,  \* the caller's message as it was handed to ToRequest
  ret          \* None until ToRequest has returned, then Some(its Status)

vars == <<data, req, req_before, ret>>

\* Largest number of accumulated steps plus set options in specification Spec.
MaxCalls == 3

----------------------------------------------------------------------------
\* std::optional<T>: the empty sequence is nullopt, <<v>> holds v.
None == <<>>
Some(v) == <<v>>
IsSet(o) == o # <<>>
Deref(o) == o[1]

\* kudu::Status
OK == [code |-> "OK", msg |-> "", detail |-> ""]
InvalidArgument(m, d) == [code |-> "InvalidArgument", msg |-> m, detail |-> d]
NotSupported(m, d) == [code |-> "NotSupported", msg |-> m, detail |-> d]
Fatal(m) == [code |-> "FATAL", msg |-> m, detail |-> ""]

----------------------------------------------------------------------------
\* An AlterTableRequestPB with every optional field absent and no step.
EmptyReq ==
  [table |-> None, modify_external_catalogs |-> None, new_table_name |-> None,
   new_extra_configs |-> None, new_table_owner |-> None,
   new_table_comment |-> None, num_replicas |-> None, schema |-> None,
   disk_size_limit |-> None, row_count_limit |-> None,
   alter_schema_steps |-> <<>>]

\* req->Clear()
Clear(r) == EmptyReq

\* A freshly added AlterTableRequestPB::Step with its type set.
PBStep(t) ==
  [type |-> t, add_column |-> None, drop_column |-> None,
   alter_column |-> None, rename_column |-> None,
   add_range_partition |-> None, drop_range_partition |-> None]

----------------------------------------------------------------------------
\* Collaborators of ToRequest.

SchemaFlags == {"SCHEMA_PB_WITHOUT_IDS", "SCHEMA_PB_WITHOUT_WRITE_DEFAULT",
                "SCHEMA_PB_WITHOUT_COMMENT"}

\* SchemaToPB(schema, pb, flags): the wire schema, with what the flags suppress.
SchemaToPB(schema, flags) ==
  [schema |-> schema,
   ids |-> "SCHEMA_PB_WITHOUT_IDS" \notin flags,
   write_default |-> "SCHEMA_PB_WITHOUT_WRITE_DEFAULT" \notin flags,
   comment |-> "SCHEMA_PB_WITHOUT_COMMENT" \notin flags]

\* The column delta resolver rejects mutually contradictory mutable fields.
Contradictory(spec) == spec.default_val /\ spec.remove_default

\* KuduColumnSpec::ToColumnSchema(&col)
ToColumnSchema(spec) ==
  IF Contradictory(spec)
  THEN [status |-> InvalidArgument("contradictory column spec", spec.name),
        col |-> None]
  ELSE [status |-> OK,
        col |-> Some([name |-> spec.name, has_default |-> spec.default_val,
                      comment |-> spec.comment])]

\* ColumnSchemaToPB(col, pb, flags)
ColumnSchemaToPB(col, flags) ==
  [name |-> col.name,
   read_default |-> col.has_default,
   write_default |-> col.has_default /\ "SCHEMA_PB_WITHOUT_WRITE_DEFAULT" \notin flags,
   comment |-> col.comment]

\* KuduColumnSpec::ToColumnSchemaDelta(&col_delta)
ToColumnSchemaDelta(spec) ==
  IF Contradictory(spec)
  THEN [status |-> InvalidArgument("contradictory column spec", spec.name),
        delta |-> None]
  ELSE [status |-> OK,
        delta |-> Some([name |-> spec.name, new_name |-> spec.rename_to,
                        default_val |-> spec.default_val,
                        remove_default |-> spec.remove_default,
                        encoding |-> spec.encoding,
                        compression |-> spec.compression,
                        block_size |-> spec.block_size,
                        comment |-> spec.comment])]

\* ColumnSchemaDeltaToPB(col_delta, pb)
ColumnSchemaDeltaToPB(delta) == delta

\* RowOperationsPBEncoder::Add(type, row): one (tag, row) entry appended.
EncoderAdd(bounds, type, row) == Append(bounds, [type |-> type, row |-> row])

----------------------------------------------------------------------------
\* KuduTableAlterer::Data::ToRequest

\* The empty-request test with the replication factor left out of it.
NoAlterStepsProvided_NoReplicationFactor(d) ==
  /\ ~IsSet(d.rename_to_)
  /\ ~IsSet(d.new_extra_configs_)
  /\ ~IsSet(d.set_owner_to_)
  /\ ~IsSet(d.set_comment_to_)
  /\ ~IsSet(d.disk_size_limit_)
  /\ ~IsSet(d.row_count_limit_)
  /\ d.steps_ = <<>>

\* The empty-request test.
NoAlterStepsProvided(d) ==
  /\ ~IsSet(d.rename_to_)
  /\ ~IsSet(d.new_extra_configs_)
  /\ ~IsSet(d.set_owner_to_)
  /\ ~IsSet(d.set_comment_to_)
  /\ ~IsSet(d.disk_size_limit_)
  /\ ~IsSet(d.row_count_limit_)
  /\ ~IsSet(d.set_replication_factor_to_)
  /\ d.steps_ = <<>>

\* std::map::insert(first, last): a key already in the map keeps its value.
MapInsert(m, entries) ==
  m \cup {e \in entries : \A x \in m : x[1] # e[1]}

\* The message-level fields written right after Clear().
SetScalarFields(d, r) ==
  LET r1 == [r EXCEPT !.modify_external_catalogs = Some(d.modify_external_catalogs_),
                      !.table = Some([table_name |-> d.table_name_])]
      r2 == IF IsSet(d.rename_to_)
            THEN [r1 EXCEPT !.new_table_name = Some(Deref(d.rename_to_))] ELSE r1
      r3 == IF IsSet(d.new_extra_configs_)
            THEN [r2 EXCEPT !.new_extra_configs =
                    Some(MapInsert(IF IsSet(r2.new_extra_configs)
                                   THEN Deref(r2.new_extra_configs) ELSE {},
                                   Deref(d.new_extra_configs_)))]
            ELSE r2
      r4 == IF IsSet(d.set_owner_to_)
            THEN [r3 EXCEPT !.new_table_owner = Some(Deref(d.set_owner_to_))] ELSE r3
      r5 == IF IsSet(d.set_comment_to_)
            THEN [r4 EXCEPT !.new_table_comment = Some(Deref(d.set_comment_to_))] ELSE r4
      r6 == IF IsSet(d.set_replication_factor_to_)
            THEN [r5 EXCEPT !.num_replicas = Some(Deref(d.set_replication_factor_to_))]
            ELSE r5
  IN r6

\* The reference schema never encoded.
EncodeSchema_Skipped(d, r) == r

\* if (schema_ != nullptr) SchemaToPB(...)
EncodeSchema(d, r) ==
  IF IsSet(d.schema_)
  THEN [r EXCEPT !.schema = Some(SchemaToPB(Deref(d.schema_), SchemaFlags))]
  ELSE r

\* disk_size_limit and row_count_limit
SetLimits(d, r) ==
  LET r1 == IF IsSet(d.disk_size_limit_)
            THEN [r EXCEPT !.disk_size_limit = Some(Deref(d.disk_size_limit_))] ELSE r
      r2 == IF IsSet(d.row_count_limit_)
            THEN [r1 EXCEPT !.row_count_limit = Some(Deref(d.row_count_limit_))] ELSE r1
  IN r2

\* The fields written on top of whatever the message held.
SetRequestFields_NoClear(d, r) ==
  SetLimits(d, EncodeSchema(d, SetScalarFields(d, r)))

\* Everything ToRequest writes to the message before the step loop.
SetRequestFields(d, r) ==
  SetLimits(d, EncodeSchema(d, SetScalarFields(d, Clear(r))))

\* case ADD_COLUMN
AddColumnStep(s, pb) ==
  LET c == ToColumnSchema(Deref(s.spec)) IN
  IF c.status # OK THEN [ret |-> c.status, pb |-> pb]
  ELSE [ret |-> OK,
        pb |-> [pb EXCEPT !.add_column =
                  Some([schema |-> ColumnSchemaToPB(Deref(c.col),
                                     {"SCHEMA_PB_WITHOUT_WRITE_DEFAULT"})])]]

\* case DROP_COLUMN
DropColumnStep(s, pb) ==
  [ret |-> OK, pb |-> [pb EXCEPT !.drop_column = Some([name |-> Deref(s.spec).name])]]

\* The test for an unsupported alteration with primary_key forgotten.
UnsupportedAlter_NoPrimaryKey(spec) == spec.type \/ spec.nullable

\* A type, nullable or primary-key change was requested.
UnsupportedAlter(spec) == spec.type \/ spec.nullable \/ spec.primary_key

\* None of the alterable fields is set.
NoAlterOperation(spec) ==
  /\ ~IsSet(spec.rename_to)
  /\ ~spec.default_val
  /\ ~spec.remove_default
  /\ ~spec.encoding
  /\ ~spec.compression
  /\ ~spec.block_size
  /\ ~IsSet(spec.comment)

\* The rename-only test reduced to "a rename was asked for".
SolelyRename_AnyRename(spec) == IsSet(spec.rename_to)

\* The alter is solely a column rename.
SolelyRename(spec) ==
  /\ ~spec.default_val
  /\ ~spec.remove_default
  /\ ~spec.encoding
  /\ ~spec.compression
  /\ ~spec.block_size
  /\ ~IsSet(spec.comment)

\* case ALTER_COLUMN with the empty alteration reported as NotSupported.
AlterColumnStep_NoOpNotSupported(s, pb) ==
  LET spec == Deref(s.spec) IN
  IF UnsupportedAlter(spec)
  THEN [ret |-> NotSupported("unsupported alter operation", spec.name), pb |-> pb]
  ELSE IF NoAlterOperation(spec)
  THEN [ret |-> NotSupported("no alter operation specified", spec.name), pb |-> pb]
  ELSE IF SolelyRename(spec)
  THEN [ret |-> OK,
        pb |-> [pb EXCEPT !.type = "RENAME_COLUMN",
                          !.rename_column = Some([old_name |-> spec.name,
                                                  new_name |-> Deref(spec.rename_to)])]]
  ELSE LET c == ToColumnSchemaDelta(spec) IN
       IF c.status # OK THEN [ret |-> c.status, pb |-> pb]
       ELSE [ret |-> OK,
             pb |-> [pb EXCEPT !.alter_column =
                                  Some([delta |-> ColumnSchemaDeltaToPB(Deref(c.delta))]),
                               !.type = "ALTER_COLUMN"]]

\* case ALTER_COLUMN
AlterColumnStep(s, pb) ==
  LET spec == Deref(s.spec) IN
  IF UnsupportedAlter(spec)
  THEN [ret |-> NotSupported("unsupported alter operation", spec.name), pb |-> pb]
  ELSE IF NoAlterOperation(spec)
  THEN [ret |-> InvalidArgument("no alter operation specified", spec.name), pb |-> pb]
  ELSE IF SolelyRename(spec)
  THEN [ret |-> OK,
        pb |-> [pb EXCEPT !.type = "RENAME_COLUMN",
                          !.rename_column = Some([old_name |-> spec.name,
                                                  new_name |-> Deref(spec.rename_to)])]]
  ELSE LET c == ToColumnSchemaDelta(spec) IN
       IF c.status # OK THEN [ret |-> c.status, pb |-> pb]
       ELSE [ret |-> OK,
             pb |-> [pb EXCEPT !.alter_column =
                                  Some([delta |-> ColumnSchemaDeltaToPB(Deref(c.delta))]),
                               !.type = "ALTER_COLUMN"]]

LowerBoundType(p) ==
  IF p.lower_bound_type_ = "INCLUSIVE_BOUND"
  THEN "RANGE_LOWER_BOUND" ELSE "EXCLUSIVE_RANGE_LOWER_BOUND"

\* The upper bound tagged by the rule of the lower bound.
UpperBoundType_LikeLower(p) ==
  IF p.upper_bound_type_ = "INCLUSIVE_BOUND"
  THEN "RANGE_UPPER_BOUND" ELSE "INCLUSIVE_RANGE_UPPER_BOUND"

UpperBoundType(p) ==
  IF p.upper_bound_type_ = "EXCLUSIVE_BOUND"
  THEN "RANGE_UPPER_BOUND" ELSE "INCLUSIVE_RANGE_UPPER_BOUND"

\* The two encoder.Add calls of a range-partition case.
RangeBounds(p) ==
  EncoderAdd(EncoderAdd(<<>>, LowerBoundType(p), p.lower_bound_),
             UpperBoundType(p), p.upper_bound_)

\* The loop over partition_data->hash_schema_.
CustomHashSchema(p) ==
  IF p.hash_schema_ = <<>> THEN None
  ELSE Some([i \in 1..Len(p.hash_schema_) |->
               [columns |-> p.hash_schema_[i].column_names,
                num_buckets |-> p.hash_schema_[i].num_buckets,
                seed |-> p.hash_schema_[i].seed]])

\* case ADD_RANGE_PARTITION
AddRangePartitionStep(s, pb) ==
  [ret |-> OK,
   pb |-> [pb EXCEPT !.add_range_partition =
             Some([range_bounds |-> RangeBounds(Deref(s.range_partition)),
                   custom_hash_schema |-> CustomHashSchema(Deref(s.range_partition)),
                   dimension_label |-> IF IsSet(s.dimension_label)
                                       THEN Some(Deref(s.dimension_label))
                                       ELSE None])]]

\* case DROP_RANGE_PARTITION
DropRangePartitionStep(s, pb) ==
  [ret |-> OK,
   pb |-> [pb EXCEPT !.drop_range_partition =
             Some([range_bounds |-> RangeBounds(Deref(s.range_partition))])]]

\* The switch over s.step_type, applied to the step entry just added.
StepSwitch(s, pb) ==
  CASE s.step_type = "ADD_COLUMN" -> AddColumnStep(s, pb)
    [] s.step_type = "DROP_COLUMN" -> DropColumnStep(s, pb)
    [] s.step_type = "ALTER_COLUMN" -> AlterColumnStep(s, pb)
    [] s.step_type = "ADD_RANGE_PARTITION" -> AddRangePartitionStep(s, pb)
    [] s.step_type = "DROP_RANGE_PARTITION" -> DropRangePartitionStep(s, pb)
    [] OTHER -> [ret |-> Fatal("unknown step type"), pb |-> pb]

\* One iteration of the loop with the entry put at the front of the list.
ToRequestStep_Prepend(s, r) ==
  LET out == StepSwitch(s, PBStep(s.step_type)) IN
  [ret |-> out.ret,
   req |-> [r EXCEPT !.alter_schema_steps = <<out.pb>> \o @]]

\* One iteration of the loop: add_alter_schema_steps(), set_type, the switch.
\* pb_step lives in the message, so what a failing case wrote stays there.
ToRequestStep(s, r) ==
  LET out == StepSwitch(s, PBStep(s.step_type)) IN
  [ret |-> out.ret,
   req |-> [r EXCEPT !.alter_schema_steps = Append(@, out.pb)]]

\* for (const Step& s : steps_), left at the first failing step.
RECURSIVE ToRequestSteps(_, _, _)
ToRequestSteps(steps, i, r) ==
  IF i > Len(steps) THEN [ret |-> OK, req |-> r]
  ELSE LET out == ToRequestStep(steps[i], r) IN
       IF out.ret # OK THEN out
       ELSE ToRequestSteps(steps, i + 1, out.req)

\* ToRequest with the message cleared before the deferred status is looked at.
ToRequestResult_ClearFirst(d, r) ==
  IF d.status_ # OK THEN [ret |-> d.status_, req |-> Clear(r)]
  ELSE IF NoAlterStepsProvided(d)
  THEN [ret |-> InvalidArgument("No alter steps provided", ""), req |-> Clear(r)]
  ELSE ToRequestSteps(d.steps_, 1, SetRequestFields(d, r))

\* ToRequest with the empty-request test ahead of the deferred status.
ToRequestResult_EmptyCheckFirst(d, r) ==
  IF NoAlterStepsProvided(d)
  THEN [ret |-> InvalidArgument("No alter steps provided", ""), req |-> r]
  ELSE IF d.status_ # OK THEN [ret |-> d.status_, req |-> r]
  ELSE ToRequestSteps(d.steps_, 1, SetRequestFields(d, r))

\* The whole of ToRequest: the returned Status and the message left behind.
ToRequestResult(d, r) ==
  IF d.status_ # OK THEN [ret |-> d.status_, req |-> r]
  ELSE IF NoAlterStepsProvided(d)
  THEN [ret |-> InvalidArgument("No alter steps provided", ""), req |-> r]
  ELSE ToRequestSteps(d.steps_, 1, SetRequestFields(d, r))

----------------------------------------------------------------------------
\* The values the callers hand to the accumulator.

\* A KuduColumnSpec on which no builder call was made.
NewColumnSpec(n) ==
  [name |-> n, type |-> FALSE, nullable |-> FALSE, primary_key |-> FALSE,
   rename_to |-> None, default_val |-> FALSE, remove_default |-> FALSE,
   encoding |-> FALSE, compression |-> FALSE, block_size |-> FALSE,
   comment |-> None]

\* Every combination of builder calls on the column spec of column n.
AllColumnSpecs(n) ==
  [name : {n}, type : BOOLEAN, nullable : BOOLEAN, primary_key : BOOLEAN,
   rename_to : {None, Some("e")}, default_val : BOOLEAN,
   remove_default : BOOLEAN, encoding : BOOLEAN, compression : BOOLEAN,
   block_size : BOOLEAN, comment : {None, Some("cm")}]

\* A bound row of the table's schema.
Row(k) == [schema |-> "S1", key |-> k]

HashDimension(cols, n, seed) ==
  [column_names |-> cols, num_buckets |-> n, seed |-> seed]

BoundTypes == {"INCLUSIVE_BOUND", "EXCLUSIVE_BOUND"}

\* KuduTableCreator::KuduRangePartition
RangePartition(lo, lt, hi, ut, hs) ==
  [lower_bound_ |-> Row(lo), upper_bound_ |-> Row(hi),
   lower_bound_type_ |-> lt, upper_bound_type_ |-> ut, hash_schema_ |-> hs]

\* KuduTableAlterer::Data::Step
ColumnStep(t, spec) ==
  [step_type |-> t, spec |-> Some(spec), range_partition |-> None,
   dimension_label |-> None]

RangeStep(t, p, label) ==
  [step_type |-> t, spec |-> None, range_partition |-> Some(p),
   dimension_label |-> label]

IsRangeStep(s) == s.step_type \in {"ADD_RANGE_PARTITION", "DROP_RANGE_PARTITION"}

RenameOnlySpec == [NewColumnSpec("d") EXCEPT !.rename_to = Some("e")]
RenameAndCommentSpec ==
  [NewColumnSpec("d2") EXCEPT !.rename_to = Some("e"), !.comment = Some("cm")]
TypeChangeSpec == [NewColumnSpec("g") EXCEPT !.type = TRUE]
ContradictorySpec ==
  [NewColumnSpec("h") EXCEPT !.default_val = TRUE, !.remove_default = TRUE]

\* The steps specification Spec appends: each kind of step, valid and invalid.
Steps ==
  {ColumnStep("ADD_COLUMN", [NewColumnSpec("a") EXCEPT !.type = TRUE]),
   ColumnStep("ADD_COLUMN", [ContradictorySpec EXCEPT !.type = TRUE]),
   ColumnStep("DROP_COLUMN", NewColumnSpec("c")),
   ColumnStep("DROP_COLUMN", NewColumnSpec("a")),
   ColumnStep("ALTER_COLUMN", RenameOnlySpec),
   ColumnStep("ALTER_COLUMN", RenameAndCommentSpec),
   ColumnStep("ALTER_COLUMN", NewColumnSpec("f")),
   ColumnStep("ALTER_COLUMN", TypeChangeSpec),
   ColumnStep("ALTER_COLUMN", ContradictorySpec),
   RangeStep("ADD_RANGE_PARTITION",
             RangePartition(1, "INCLUSIVE_BOUND", 5, "EXCLUSIVE_BOUND", <<>>), None),
   RangeStep("ADD_RANGE_PARTITION",
             RangePartition(5, "EXCLUSIVE_BOUND", 9, "INCLUSIVE_BOUND",
                            <<HashDimension(<<"a", "c">>, 4, 7)>>), Some("L")),
   RangeStep("DROP_RANGE_PARTITION",
             RangePartition(1, "INCLUSIVE_BOUND", 5, "EXCLUSIVE_BOUND", <<>>), None),
   RangeStep("DROP_RANGE_PARTITION",
             RangePartition(5, "INCLUSIVE_BOUND", 9, "INCLUSIVE_BOUND", <<>>), None)}

\* A status captured by an earlier call on the alterer.
DeferredErrors ==
  {InvalidArgument("range partition bounds may not be null", ""),
   NotSupported("deferred", "x")}

TableNames == {"t2", ""}
ExtraConfigs == {{}, {<<"k", "v">>}}
Owners == {"o"}
Comments == {"", "c"}
ReplicationFactors == {1, 3}
Limits == {0, 8}

\* A message the caller has used before.
StaleReq ==
  [table |-> Some([table_name |-> "old"]),
   modify_external_catalogs |-> Some(FALSE),
   new_table_name |-> Some("stale"),
   new_extra_configs |-> Some({<<"k", "stale">>}),
   new_table_owner |-> Some("stale"),
   new_table_comment |-> Some("stale"),
   num_replicas |-> Some(7),
   schema |-> Some(SchemaToPB("S0", {})),
   disk_size_limit |-> Some(5),
   row_count_limit |-> Some(5),
   alter_schema_steps |->
     <<[PBStep("DROP_COLUMN") EXCEPT !.drop_column = Some([name |-> "zz"])]>>]

----------------------------------------------------------------------------
\* KuduTableAlterer::Data::Data(client, name) and the member initializers.
NewData ==
  [table_name_ |-> "tbl", status_ |-> OK, steps_ |-> <<>>,
   rename_to_ |-> None, set_owner_to_ |-> None, set_comment_to_ |-> None,
   set_replication_factor_to_ |-> None, new_extra_configs_ |-> None,
   disk_size_limit_ |-> None, row_count_limit_ |-> None,
   schema_ |-> None, modify_external_catalogs_ |-> TRUE]

\* The optional global settings of d that are set.
OptionsSet(d) ==
  {f \in {"rename_to_", "new_extra_configs_", "set_owner_to_", "set_comment_to_",
          "disk_size_limit_", "row_count_limit_", "set_replication_factor_to_"} :
     IsSet(d[f])}

\* What has been accumulated so far.
Calls(d) == Len(d.steps_) + Cardinality(OptionsSet(d))

Accumulating == ret = None /\ Calls(data) < MaxCalls

Init ==
  /\ data = NewData
  /\ req \in {EmptyReq, StaleReq}
  /\ req_before = req
  /\ ret = None

\* The step accumulator: append-only, no validation. A range-partition step
\* brings the schema of its bound rows, which becomes the reference schema.
addStep ==
  /\ Accumulating
  /\ \E s \in Steps :
       data' = [data EXCEPT
                  !.steps_ = Append(@, s),
                  !.schema_ = IF IsRangeStep(s) /\ @ = None
                              THEN Some(Deref(s.range_partition).lower_bound_.schema)
                              ELSE @]
  /\ UNCHANGED <<req, req_before, ret>>

setRename ==
  /\ Accumulating
  /\ \E v \in TableNames : data' = [data EXCEPT !.rename_to_ = Some(v)]
  /\ UNCHANGED <<req, req_before, ret>>

setOwner ==
  /\ Accumulating
  /\ \E v \in Owners : data' = [data EXCEPT !.set_owner_to_ = Some(v)]
  /\ UNCHANGED <<req, req_before, ret>>

setComment ==
  /\ Accumulating
  /\ \E v \in Comments : data' = [data EXCEPT !.set_comment_to_ = Some(v)]
  /\ UNCHANGED <<req, req_before, ret>>

setReplicationFactor ==
  /\ Accumulating
  /\ \E v \in ReplicationFactors :
       data' = [data EXCEPT !.set_replication_factor_to_ = Some(v)]
  /\ UNCHANGED <<req, req_before, ret>>

setExtraConfig ==
  /\ Accumulating
  /\ \E v \in ExtraConfigs : data' = [data EXCEPT !.new_extra_configs_ = Some(v)]
  /\ UNCHANGED <<req, req_before, ret>>

setDiskLimit ==
  /\ Accumulating
  /\ \E v \in Limits : data' = [data EXCEPT !.disk_size_limit_ = Some(v)]
  /\ UNCHANGED <<req, req_before, ret>>

setRowCountLimit ==
  /\ Accumulating
  /\ \E v \in Limits : data' = [data EXCEPT !.row_count_limit_ = Some(v)]
  /\ UNCHANGED <<req, req_before, ret>>

setModifyExternalCatalogs ==
  /\ ret = None
  /\ \E b \in BOOLEAN : data' = [data EXCEPT !.modify_external_catalogs_ = b]
  /\ UNCHANGED <<req, req_before, ret>>

\* An earlier call on the alterer failed and left its status behind.
deferError ==
  /\ ret = None
  /\ data.status_ = OK
  /\ \E e \in DeferredErrors : data' = [data EXCEPT !.status_ = e]
  /\ UNCHANGED <<req, req_before, ret>>

\* Status ToRequest(AlterTableRequestPB* req), called once.
ToRequest ==
  /\ ret = None
  /\ LET out == ToRequestResult(data, req) IN
       /\ req' = out.req
       /\ ret' = Some(out.ret)
  /\ UNCHANGED <<data, req_before>>

Next ==
  \/ addStep
  \/ setRename
  \/ setOwner
  \/ setComment
  \/ setReplicationFactor
  \/ setExtraConfig
  \/ setDiskLimit
  \/ setRowCountLimit
  \/ setModifyExternalCatalogs
  \/ deferError
  \/ ToRequest

Spec == Init /\ [][Next]_vars

----------------------------------------------------------------------------
\* ToRequest on every combination of the global settings.
OptionOf(S) == {None} \cup {Some(v) : v \in S}

DropStep == ColumnStep("DROP_COLUMN", NewColumnSpec("c"))

AddRangeStep ==
  RangeStep("ADD_RANGE_PARTITION",
            RangePartition(1, "INCLUSIVE_BOUND", 5, "EXCLUSIVE_BOUND", <<>>), None)

InitOptions ==
  /\ \E st \in {<<>>, <<DropStep>>, <<AddRangeStep>>} :
       data \in [table_name_ : {"tbl"},
                 status_ : {OK, InvalidArgument("range partition bounds may not be null", "")},
                 steps_ : {st},
                 rename_to_ : OptionOf(TableNames),
                 set_owner_to_ : OptionOf(Owners),
                 set_comment_to_ : OptionOf(Comments),
                 set_replication_factor_to_ : OptionOf(ReplicationFactors),
                 new_extra_configs_ : OptionOf(ExtraConfigs),
                 disk_size_limit_ : OptionOf(Limits),
                 row_count_limit_ : OptionOf(Limits),
                 schema_ : {IF st = <<AddRangeStep>> THEN Some("S1") ELSE None},
                 modify_external_catalogs_ : BOOLEAN]
  /\ req \in {EmptyReq, StaleReq}
  /\ req_before = req
  /\ ret = None

NextFinalize == ToRequest

SpecOptions == InitOptions /\ [][NextFinalize]_vars

----------------------------------------------------------------------------
\* ToRequest on every AlterColumn spec, alone and next to another step.
Neighbours ==
  {DropStep,
   ColumnStep("ALTER_COLUMN", RenameOnlySpec),
   ColumnStep("ALTER_COLUMN", NewColumnSpec("f")),
   ColumnStep("ALTER_COLUMN", TypeChangeSpec),
   ColumnStep("ADD_COLUMN", [ContradictorySpec EXCEPT !.type = TRUE])}

InitAlterColumn ==
  /\ \E spec \in AllColumnSpecs("x") :
       LET a == ColumnStep("ALTER_COLUMN", spec) IN
       \E st \in {<<a>>} \cup {<<a, n>> : n \in Neighbours}
                         \cup {<<n, a>> : n \in Neighbours} :
         data = [NewData EXCEPT !.steps_ = st]
  /\ req = EmptyReq
  /\ req_before = req
  /\ ret = None

SpecAlterColumn == InitAlterColumn /\ [][NextFinalize]_vars

----------------------------------------------------------------------------
\* ToRequest on every shape of range-partition step, one or two of them.
HashSchemas ==
  {<<>>,
   <<HashDimension(<<"a">>, 2, 0)>>,
   <<HashDimension(<<"a", "c">>, 4, 7), HashDimension(<<"b">>, 3, 1)>>}

RangeSteps ==
  {RangeStep("ADD_RANGE_PARTITION", RangePartition(1, lt, 5, ut, hs), label) :
     lt \in BoundTypes, ut \in BoundTypes, hs \in HashSchemas,
     label \in {None, Some("L")}}
  \cup
  {RangeStep("DROP_RANGE_PARTITION", RangePartition(1, lt, 5, ut, <<>>), None) :
     lt \in BoundTypes, ut \in BoundTypes}

InitRange ==
  /\ \E st \in {<<s>> : s \in RangeSteps} \cup {<<s, u>> : s \in RangeSteps, u \in RangeSteps} :
       data = [NewData EXCEPT !.steps_ = st, !.schema_ = Some("S1")]
  /\ req = EmptyReq
  /\ req_before = req
  /\ ret = None

SpecRange == InitRange /\ [][NextFinalize]_vars

----------------------------------------------------------------------------
\* Properties of ToRequest.

Finalized == ret # None
Returned == Deref(ret)
Succeeded == Finalized /\ Returned = OK

StepIndexes == 1..Len(data.steps_)

RequestsUnsupported(spec) == spec.type \/ spec.nullable \/ spec.primary_key

\* The alterable fields a column spec has set.
MutableFieldsSet(spec) ==
  {f \in {"rename_to", "comment"} : IsSet(spec[f])}
  \cup {f \in {"default_val", "remove_default", "encoding", "compression",
               "block_size"} : spec[f]}

\* The step is one ToRequest returns a failure at.
FailsValidation(s) ==
  \/ /\ s.step_type = "ADD_COLUMN"
     /\ Contradictory(Deref(s.spec))
  \/ /\ s.step_type = "ALTER_COLUMN"
     /\ \/ RequestsUnsupported(Deref(s.spec))
        \/ MutableFieldsSet(Deref(s.spec)) = {}
        \/ /\ MutableFieldsSet(Deref(s.spec)) # {"rename_to"}
           /\ Contradictory(Deref(s.spec))

IsFirstFailing(i) ==
  /\ i \in StepIndexes
  /\ FailsValidation(data.steps_[i])
  /\ \A j \in 1..(i - 1) : ~FailsValidation(data.steps_[j])

PayloadsSet(e) ==
  {f \in {"add_column", "drop_column", "alter_column", "rename_column",
          "add_range_partition", "drop_range_partition"} : IsSet(e[f])}

BoundRows(p) == <<p.lower_bound_, p.upper_bound_>>

RowsOf(bounds) == [i \in 1..Len(bounds) |-> bounds[i].row]

\* Entry e is the entry of step s.
DerivedFrom(s, e) ==
  CASE s.step_type = "ADD_COLUMN" ->
         /\ e.type = "ADD_COLUMN"
         /\ PayloadsSet(e) = {"add_column"}
         /\ Deref(e.add_column).schema.name = Deref(s.spec).name
    [] s.step_type = "DROP_COLUMN" ->
         /\ e.type = "DROP_COLUMN"
         /\ PayloadsSet(e) = {"drop_column"}
         /\ Deref(e.drop_column).name = Deref(s.spec).name
    [] s.step_type = "ALTER_COLUMN" ->
         \/ /\ e.type = "ALTER_COLUMN"
            /\ PayloadsSet(e) = {"alter_column"}
            /\ Deref(e.alter_column).delta.name = Deref(s.spec).name
         \/ /\ e.type = "RENAME_COLUMN"
            /\ PayloadsSet(e) = {"rename_column"}
            /\ Deref(e.rename_column).old_name = Deref(s.spec).name
    [] s.step_type = "ADD_RANGE_PARTITION" ->
         /\ e.type = "ADD_RANGE_PARTITION"
         /\ PayloadsSet(e) = {"add_range_partition"}
         /\ RowsOf(Deref(e.add_range_partition).range_bounds)
              = BoundRows(Deref(s.range_partition))
    [] s.step_type = "DROP_RANGE_PARTITION" ->
         /\ e.type = "DROP_RANGE_PARTITION"
         /\ PayloadsSet(e) = {"drop_range_partition"}
         /\ RowsOf(Deref(e.drop_range_partition).range_bounds)
              = BoundRows(Deref(s.range_partition))

\* C1: when ToRequest succeeds the message has exactly one entry per
\* accumulated step, in insertion order, entry i derived from step i.
C1_StepOrder ==
  Succeeded =>
    /\ Len(req.alter_schema_steps) = Len(data.steps_)
    /\ \A i \in StepIndexes : DerivedFrom(data.steps_[i], req.alter_schema_steps[i])

\* C1 witness: three steps of three kinds, the last one a rename-only alter.
C1_Witness ==
  /\ Succeeded
  /\ Len(data.steps_) = 3
  /\ [i \in 1..3 |-> data.steps_[i].step_type]
       = <<"ADD_COLUMN", "DROP_COLUMN", "ALTER_COLUMN">>
  /\ [i \in 1..3 |-> req.alter_schema_steps[i].type]
       = <<"ADD_COLUMN", "DROP_COLUMN", "RENAME_COLUMN">>

\* C2: on success, the entry of an AlterColumn step is RenameColumn with
\* (old name, new name) exactly when rename is the only alterable field set;
\* with any other field set it is AlterColumn carrying the delta.
C2_RenameOnlyDegrades ==
  Succeeded =>
    \A i \in StepIndexes :
      data.steps_[i].step_type = "ALTER_COLUMN" =>
        LET spec == Deref(data.steps_[i].spec)
            e == req.alter_schema_steps[i]
        IN IF MutableFieldsSet(spec) = {"rename_to"}
           THEN /\ e.type = "RENAME_COLUMN"
                /\ PayloadsSet(e) = {"rename_column"}
                /\ Deref(e.rename_column)
                     = [old_name |-> spec.name, new_name |-> Deref(spec.rename_to)]
           ELSE /\ e.type = "ALTER_COLUMN"
                /\ PayloadsSet(e) = {"alter_column"}
                /\ Deref(e.alter_column).delta.name = spec.name
                /\ Deref(e.alter_column).delta.new_name = spec.rename_to
                /\ Deref(e.alter_column).delta.comment = spec.comment

\* C2 witness: a rename-and-comment alter emitted as AlterColumn next to a
\* rename-only alter emitted as RenameColumn.
C2_Witness ==
  /\ Succeeded
  /\ Len(data.steps_) = 2
  /\ data.steps_[1].step_type = "ALTER_COLUMN"
  /\ MutableFieldsSet(Deref(data.steps_[1].spec)) = {"rename_to", "comment"}
  /\ req.alter_schema_steps[1].type = "ALTER_COLUMN"
  /\ data.steps_[2] = ColumnStep("ALTER_COLUMN", RenameOnlySpec)
  /\ req.alter_schema_steps[2].type = "RENAME_COLUMN"

\* C3 as stated: whenever ToRequest fails, the caller's message is as it was
\* before the call.
C3_NoPartialMessage ==
  (Finalized /\ Returned # OK) => req = req_before

\* C3 amended: a deferred error or the empty-request error leaves the
\* caller's message untouched; a failure at a step leaves it cleared, with the
\* message-level fields written and one entry per step up to and including
\* the failing one.
C3_FailureLeavesMessage ==
  (Finalized /\ Returned # OK) =>
    IF data.status_ # OK \/ (data.steps_ = <<>> /\ OptionsSet(data) = {})
    THEN req = req_before
    ELSE /\ req # req_before
         /\ req.table = Some([table_name |-> data.table_name_])
         /\ req.modify_external_catalogs = Some(data.modify_external_catalogs_)
         /\ req.new_table_name = data.rename_to_
         /\ req.num_replicas = data.set_replication_factor_to_
         /\ Len(req.alter_schema_steps) \in StepIndexes
         /\ IsFirstFailing(Len(req.alter_schema_steps))

\* C3 witness: a failure at the second step, on a message used before.
C3_Witness ==
  /\ Finalized
  /\ Returned # OK
  /\ data.status_ = OK
  /\ req_before = StaleReq
  /\ Len(data.steps_) = 3
  /\ Len(req.alter_schema_steps) = 2

\* C4: without a deferred error, ToRequest returns InvalidArgument "No alter
\* steps provided" exactly when there is no step and none of the seven
\* global options is set.
C4_EmptyRequest ==
  (Finalized /\ data.status_ = OK) =>
    (Returned = InvalidArgument("No alter steps provided", "")
       <=> (data.steps_ = <<>> /\ OptionsSet(data) = {}))

\* C4 witness: nothing but the modify-external-catalogs flag was set.
C4_Witness ==
  /\ Finalized
  /\ data.status_ = OK
  /\ data.steps_ = <<>>
  /\ OptionsSet(data) = {}
  /\ ~data.modify_external_catalogs_
  /\ Returned = InvalidArgument("No alter steps provided", "")

\* C5: with a deferred status, ToRequest returns exactly that status and
\* processes nothing, whatever was accumulated.
C5_DeferredFirst ==
  (Finalized /\ data.status_ # OK) =>
    /\ Returned = data.status_
    /\ req = req_before

\* C5 witness: a deferred status on a spec whose first step is invalid.
C5_Witness ==
  /\ Finalized
  /\ data.status_ # OK
  /\ data.steps_ # <<>>
  /\ FailsValidation(data.steps_[1])
  /\ Returned = data.status_

\* C6: if the first failing step is an AlterColumn step requesting a type,
\* nullable or primary-key change, ToRequest returns NotSupported naming its
\* column, whatever alterable fields it sets; and ToRequest never succeeds on
\* a spec with such a step.
C6_UnsupportedAlter ==
  /\ (Finalized /\ data.status_ = OK) =>
       \A i \in StepIndexes :
         (/\ IsFirstFailing(i)
          /\ data.steps_[i].step_type = "ALTER_COLUMN"
          /\ RequestsUnsupported(Deref(data.steps_[i].spec)))
         => /\ Returned.code = "NotSupported"
            /\ Returned.detail = Deref(data.steps_[i].spec).name
  /\ Succeeded =>
       \A i \in StepIndexes :
         ~(/\ data.steps_[i].step_type = "ALTER_COLUMN"
           /\ RequestsUnsupported(Deref(data.steps_[i].spec)))

\* C6 witness: a primary-key request with no alterable field set, after a
\* step that passes.
C6_Witness ==
  /\ Finalized
  /\ Len(data.steps_) = 2
  /\ IsFirstFailing(2)
  /\ data.steps_[2].step_type = "ALTER_COLUMN"
  /\ Deref(data.steps_[2].spec).primary_key
  /\ ~Deref(data.steps_[2].spec).type
  /\ ~Deref(data.steps_[2].spec).nullable
  /\ MutableFieldsSet(Deref(data.steps_[2].spec)) = {}
  /\ Returned = NotSupported("unsupported alter operation", "x")

\* C7: if the first failing step is an AlterColumn step with no type,
\* nullable or primary-key request and no alterable field set, ToRequest
\* returns InvalidArgument naming its column; and ToRequest never succeeds on
\* a spec with such a step.
C7_EmptyAlter ==
  /\ (Finalized /\ data.status_ = OK) =>
       \A i \in StepIndexes :
         (/\ IsFirstFailing(i)
          /\ data.steps_[i].step_type = "ALTER_COLUMN"
          /\ ~RequestsUnsupported(Deref(data.steps_[i].spec))
          /\ MutableFieldsSet(Deref(data.steps_[i].spec)) = {})
         => /\ Returned.code = "InvalidArgument"
            /\ Returned.detail = Deref(data.steps_[i].spec).name
  /\ Succeeded =>
       \A i \in StepIndexes :
         ~(/\ data.steps_[i].step_type = "ALTER_COLUMN"
           /\ ~RequestsUnsupported(Deref(data.steps_[i].spec))
           /\ MutableFieldsSet(Deref(data.steps_[i].spec)) = {})

\* C7 witness: an alter with nothing set, after a rename-only alter.
C7_Witness ==
  /\ Finalized
  /\ Len(data.steps_) = 2
  /\ data.steps_[1] = ColumnStep("ALTER_COLUMN", RenameOnlySpec)
  /\ data.steps_[2] = ColumnStep("ALTER_COLUMN", NewColumnSpec("x"))
  /\ Returned = InvalidArgument("no alter operation specified", "x")

LowerTag(t) ==
  CASE t = "INCLUSIVE_BOUND" -> "RANGE_LOWER_BOUND"
    [] t = "EXCLUSIVE_BOUND" -> "EXCLUSIVE_RANGE_LOWER_BOUND"

UpperTag(t) ==
  CASE t = "EXCLUSIVE_BOUND" -> "RANGE_UPPER_BOUND"
    [] t = "INCLUSIVE_BOUND" -> "INCLUSIVE_RANGE_UPPER_BOUND"

ExpectedBounds(p) ==
  <<[type |-> LowerTag(p.lower_bound_type_), row |-> p.lower_bound_],
    [type |-> UpperTag(p.upper_bound_type_), row |-> p.upper_bound_]>>

\* C8: the bounds of every range-partition entry are two entries, lower then
\* upper, each tagged by its own inclusivity; Add and Drop encode them alike,
\* and a Drop entry carries nothing but its bounds.
C8_BoundEncoding ==
  Succeeded =>
    \A i \in StepIndexes :
      LET s == data.steps_[i]
          e == req.alter_schema_steps[i]
      IN /\ s.step_type = "ADD_RANGE_PARTITION" =>
              /\ PayloadsSet(e) = {"add_range_partition"}
              /\ Deref(e.add_range_partition).range_bounds
                   = ExpectedBounds(Deref(s.range_partition))
         /\ s.step_type = "DROP_RANGE_PARTITION" =>
              /\ PayloadsSet(e) = {"drop_range_partition"}
              /\ Deref(e.drop_range_partition)
                   = [range_bounds |-> ExpectedBounds(Deref(s.range_partition))]

\* C8 witness: an Add and a Drop of the same range with both inclusivities
\* flipped from the defaults.
C8_Witness ==
  /\ Succeeded
  /\ Len(data.steps_) = 2
  /\ data.steps_[1].step_type = "ADD_RANGE_PARTITION"
  /\ data.steps_[2].step_type = "DROP_RANGE_PARTITION"
  /\ \A i \in 1..2 :
       /\ Deref(data.steps_[i].range_partition).lower_bound_type_ = "EXCLUSIVE_BOUND"
       /\ Deref(data.steps_[i].range_partition).upper_bound_type_ = "INCLUSIVE_BOUND"
  /\ Deref(req.alter_schema_steps[1].add_range_partition).range_bounds
       = Deref(req.alter_schema_steps[2].drop_range_partition).range_bounds
  /\ Deref(req.alter_schema_steps[1].add_range_partition).range_bounds[2].type
       = "INCLUSIVE_RANGE_UPPER_BOUND"

\* The message field each global option is written to.
FieldFor(o) ==
  CASE o = "rename_to_" -> "new_table_name"
    [] o = "new_extra_configs_" -> "new_extra_configs"
    [] o = "set_owner_to_" -> "new_table_owner"
    [] o = "set_comment_to_" -> "new_table_comment"
    [] o = "set_replication_factor_to_" -> "num_replicas"
    [] o = "disk_size_limit_" -> "disk_size_limit"
    [] o = "row_count_limit_" -> "row_count_limit"

PresentFields(r) ==
  {f \in {"new_table_name", "new_extra_configs", "new_table_owner",
          "new_table_comment", "num_replicas", "disk_size_limit",
          "row_count_limit", "schema"} : IsSet(r[f])}

\* C9: on success an optional message field is present exactly when its
\* option was set, with the set value; one option and no step succeeds with
\* that field alone and an empty step list.
C9_OptionalFields ==
  /\ Succeeded =>
       /\ PresentFields(req)
            = {FieldFor(o) : o \in OptionsSet(data)}
              \cup (IF IsSet(data.schema_) THEN {"schema"} ELSE {})
       /\ \A o \in OptionsSet(data) : req[FieldFor(o)] = data[o]
       /\ IsSet(data.schema_) => Deref(req.schema).schema = Deref(data.schema_)
  /\ (/\ Finalized
      /\ data.status_ = OK
      /\ data.steps_ = <<>>
      /\ Cardinality(OptionsSet(data)) = 1)
     => /\ Returned = OK
        /\ req.alter_schema_steps = <<>>
        /\ PresentFields(req) = {FieldFor(o) : o \in OptionsSet(data)}

\* C9 witness: only the replication factor set, on a message used before.
C9_Witness ==
  /\ Succeeded
  /\ data.steps_ = <<>>
  /\ OptionsSet(data) = {"set_replication_factor_to_"}
  /\ req_before = StaleReq
  /\ PresentFields(req) = {"num_replicas"}
  /\ req.num_replicas = Some(3)

IsRangeEntry(e) == e.type \in {"ADD_RANGE_PARTITION", "DROP_RANGE_PARTITION"}

\* C10: when ToRequest succeeds on a spec with a range-partition step, the
\* spec has a reference schema and the message carries its encoding; no
\* successful message has a range-partition entry and no schema.
C10_RangeNeedsSchema ==
  Succeeded =>
    /\ (\E i \in StepIndexes : IsRangeStep(data.steps_[i])) =>
         /\ IsSet(data.schema_)
         /\ IsSet(req.schema)
         /\ Deref(req.schema).schema = Deref(data.schema_)
    /\ (\E i \in 1..Len(req.alter_schema_steps) :
          IsRangeEntry(req.alter_schema_steps[i])) => IsSet(req.schema)

\* C10 witness: a successful request with a DropRangePartition entry and the
\* encoded schema.
C10_Witness ==
  /\ Succeeded
  /\ \E i \in StepIndexes : data.steps_[i].step_type = "DROP_RANGE_PARTITION"
  /\ req_before = StaleReq
  /\ IsSet(req.schema)
  /\ Deref(req.schema).schema = "S1"

====
